---------------------------- MODULE Spec2Model ----------------------------
(***************************************************************************)
(* A model of compare_clusters.py (arvestad/nc_helpers): identifier        *)
(* normalisation, inversion of a clustering to a sequence -> label         *)
(* mapping, reconciliation of two mappings and the statistics printed.     *)
(*                                                                         *)
(* Strings are sequences of one-character strings, so that splitting,      *)
(* str.isalpha and lexicographic order are computed and not assumed.       *)
(***************************************************************************)
EXTENDS Integers, Sequences, FiniteSets, TLC

VARIABLES pc,      \* position of the run
          seq_id,  \* SpecNorm: the identifier handed to strip_species_prefix
          norm1,   \* SpecNorm: strip_species_prefix(seq_id)
          norm2,   \* SpecNorm: strip_species_prefix(norm1)
          file1,   \* main: what json.load finds in args.jsonfile1
          file2,   \* main: what json.load finds in args.jsonfile2
          json1,   \* main: json1 (None until loaded)
          json2,   \* main: json2
          inv1,    \* main: inv1, a function from identifiers to labels
          inv2,    \* main: inv2
          c,       \* args.c
          stdout,  \* what was printed to standard output, in order
          stderr,  \* what was printed to standard error, in order
          status   \* exit status of the process ("running" until it ends)

vars == <<pc, seq_id, norm1, norm2, file1, file2, json1, json2, inv1, inv2,
          c, stdout, stderr, status>>

-----------------------------------------------------------------------------
(* Bounds of the model.                                                    *)

\* longest identifier handed to strip_species_prefix in SpecNorm
MaxLen == 4

\* most entries of an input object, and most clusters under 'components'
MaxClusters == 2

\* most member identifiers in one input object
MaxIds == 2

\* most sequences the two mappings handed to compare_clusterings know of
MaxSeqs == 4

\* most member identifiers (and clusters) in a file read by main
MaxFileIds == 1

-----------------------------------------------------------------------------
(* Characters and strings.                                                 *)

\* the characters identifiers and labels are written with
Letters == {"A", "g", "h", "v", "w"}
Digits  == {"0", "1", "2", "3", "4", "5", "6", "7", "8", "9"}
Dot     == "."

\* Unicode code point of a character (Python compares strings by code point)
CodePoint(ch) ==
    CASE ch = "." -> 46
      [] ch = "0" -> 48 [] ch = "1" -> 49 [] ch = "2" -> 50 [] ch = "3" -> 51
      [] ch = "4" -> 52 [] ch = "5" -> 53 [] ch = "6" -> 54 [] ch = "7" -> 55
      [] ch = "8" -> 56 [] ch = "9" -> 57
      [] ch = "A" -> 65 [] ch = "_" -> 95
      [] ch = "g" -> 103 [] ch = "h" -> 104
      [] ch = "v" -> 118 [] ch = "w" -> 119

\* s < t for Python strings
RECURSIVE StrLess(_, _)
StrLess(s, t) ==
    IF t = <<>> THEN FALSE
    ELSE IF s = <<>> THEN TRUE
    ELSE IF s[1] # t[1] THEN CodePoint(s[1]) < CodePoint(t[1])
    ELSE StrLess(Tail(s), Tail(t))

\* str.isalpha(): at least one character and every character a letter
IsAlphaMutant(s) ==
    Len(s) > 0 /\ \A i \in 1..Len(s) : s[i] \in Letters \cup Digits

IsAlpha(s) ==
    Len(s) > 0 /\ \A i \in 1..Len(s) : s[i] \in Letters

\* s.split(".", 1): scan to the first dot, cut there once
RECURSIVE SplitScan(_, _)
SplitScan(s, i) ==
    IF i > Len(s) THEN <<s>>
    ELSE IF s[i] = Dot THEN <<SubSeq(s, 1, i - 1), SubSeq(s, i + 1, Len(s))>>
    ELSE SplitScan(s, i + 1)

SplitFirstDot(s) == SplitScan(s, 1)

\* a plausible slip: rsplit, which cuts at the last dot
RECURSIVE RSplitScan(_, _)
RSplitScan(s, i) ==
    IF i < 1 THEN <<s>>
    ELSE IF s[i] = Dot THEN <<SubSeq(s, 1, i - 1), SubSeq(s, i + 1, Len(s))>>
    ELSE RSplitScan(s, i - 1)

strip_species_prefix_rsplit(id) ==
    LET parts == RSplitScan(id, Len(id))
    IN  IF Len(parts) = 2 /\ IsAlpha(parts[1]) THEN parts[2] ELSE id

strip_species_prefix(id) ==
    LET parts == SplitFirstDot(id)
    IN  IF Len(parts) = 2 /\ IsAlpha(parts[1]) THEN parts[2] ELSE id

-----------------------------------------------------------------------------
(* SpecNorm: strip_species_prefix applied to an identifier, then to its    *)
(* own result.                                                             *)

NormChars == {"A", "1", ".", "_"}

NormInputs == UNION {[1..n -> NormChars] : n \in 0..MaxLen}

None == [t |-> "none"]

InitNorm ==
    /\ pc = "norm"
    /\ seq_id \in NormInputs
    /\ norm1 = <<>> /\ norm2 = <<>>
    /\ file1 = None /\ file2 = None /\ json1 = None /\ json2 = None
    /\ inv1 = <<>> /\ inv2 = <<>>
    /\ c = FALSE
    /\ stdout = <<>> /\ stderr = <<>>
    /\ status = "running"

Normalize ==
    /\ pc = "norm"
    /\ norm1' = strip_species_prefix(seq_id)
    /\ pc' = "renorm"
    /\ UNCHANGED <<seq_id, norm2, file1, file2, json1, json2, inv1, inv2,
                   c, stdout, stderr, status>>

Renormalize ==
    /\ pc = "renorm"
    /\ norm2' = strip_species_prefix(norm1)
    /\ pc' = "normdone"
    /\ UNCHANGED <<seq_id, norm1, file1, file2, json1, json2, inv1, inv2,
                   c, stdout, stderr, status>>

NextNorm == Normalize \/ Renormalize

SpecNorm == InitNorm /\ [][NextNorm]_vars

\* position of the first dot of s, 0 when there is none
FirstDot(s) ==
    IF \E i \in 1..Len(s) : s[i] = Dot
    THEN CHOOSE i \in 1..Len(s) :
            s[i] = Dot /\ \A j \in 1..(i - 1) : s[j] # Dot
    ELSE 0

\* s has a non-empty, purely alphabetic text before its first dot
HasSpeciesPrefix(s) ==
    /\ FirstDot(s) > 1
    /\ \A j \in 1..(FirstDot(s) - 1) : s[j] \in Letters

AfterFirstDot(s) == SubSeq(s, FirstDot(s) + 1, Len(s))

\* C1 as stated: normalising a normalised identifier changes nothing.
C1_Idempotent ==
    pc = "normdone" => norm2 = norm1

\* C1 amended: normalising twice differs from normalising once exactly when
\* the identifier has a species prefix and the text after its first dot has
\* a species prefix of its own; then the second pass strips that one too.
C1_IdempotentUnlessTwoPrefixes ==
    pc = "normdone" =>
        LET twice == HasSpeciesPrefix(seq_id)
                     /\ HasSpeciesPrefix(AfterFirstDot(seq_id))
        IN  /\ (norm2 = norm1) <=> ~twice
            /\ twice => norm2 = AfterFirstDot(AfterFirstDot(seq_id))

\* an identifier with two dots and no second alphabetic part was normalised
\* twice
C1_Witness ==
    /\ pc = "normdone"
    /\ HasSpeciesPrefix(seq_id)
    /\ FirstDot(AfterFirstDot(seq_id)) > 0
    /\ norm2 = norm1

\* C2: the result is the text after the first dot exactly when the text
\* before the first dot is non-empty and alphabetic; otherwise the
\* identifier itself. Later dots stay in the result.
C2_StripContract ==
    pc # "norm" =>
        /\ HasSpeciesPrefix(seq_id) => norm1 = AfterFirstDot(seq_id)
        /\ ~HasSpeciesPrefix(seq_id) => norm1 = seq_id

\* a prefix was stripped from an identifier with two dots, and the second
\* dot is still there
C2_Witness ==
    /\ pc # "norm"
    /\ HasSpeciesPrefix(seq_id)
    /\ norm1 # seq_id
    /\ \E i \in 1..Len(norm1) : norm1[i] = Dot

-----------------------------------------------------------------------------
(* Parsed JSON.  An object is [t |-> "dict", v |-> its entries in file     *)
(* order]; an entry is [k |-> key, t |-> "list" or "scalar", v |-> the     *)
(* list].  The list under 'components' holds clusters (lists of             *)
(* identifiers), any other list holds identifiers.                         *)

Components == <<"c", "o", "m", "p", "o", "n", "e", "n", "t", "s">>

EmptyMap == <<>>

\* d[k] = v on a Python dict: a later write replaces the earlier value
Put(d, k, v) == (k :> v) @@ d

\* the slip of keeping the first value written
PutFirstWins(d, k, v) == d @@ (k :> v)

\* a dict built from (key, value) pairs in the order a comprehension
\* yields them
RECURSIVE DictOfFirstWins(_)
DictOfFirstWins(pairs) ==
    IF pairs = <<>> THEN EmptyMap
    ELSE LET n == Len(pairs)
         IN  PutFirstWins(DictOfFirstWins(SubSeq(pairs, 1, n - 1)),
                          pairs[n][1], pairs[n][2])

RECURSIVE DictOf(_)
DictOf(pairs) ==
    IF pairs = <<>> THEN EmptyMap
    ELSE LET n == Len(pairs)
         IN  Put(DictOf(SubSeq(pairs, 1, n - 1)), pairs[n][1], pairs[n][2])

DigitChar(d) ==
    CASE d = 0 -> "0" [] d = 1 -> "1" [] d = 2 -> "2" [] d = 3 -> "3"
      [] d = 4 -> "4" [] d = 5 -> "5" [] d = 6 -> "6" [] d = 7 -> "7"
      [] d = 8 -> "8" [] d = 9 -> "9"

\* str(i) for i >= 0
RECURSIVE IntToStr(_)
IntToStr(i) ==
    IF i < 10 THEN <<DigitChar(i)>>
    ELSE IntToStr(i \div 10) \o <<DigitChar(i % 10)>>

\* "components" in data
HasKey(data, key) == \E e \in 1..Len(data.v) : data.v[e].k = key

\* data[key]
Lookup(data, key) == data.v[CHOOSE e \in 1..Len(data.v) : data.v[e].k = key]

\* "components" in data and isinstance(data["components"], list)
IsComponentsFormat(data) ==
    HasKey(data, Components) /\ Lookup(data, Components).t = "list"

\* [(strip_species_prefix(seq), label) for seq in members]
MemberPairs(members, label) ==
    [j \in 1..Len(members) |-> <<strip_species_prefix(members[j]), label>>]

\* the pairs of the first comprehension: for i, cluster in
\* enumerate(clusters) for seq in cluster
RECURSIVE ComponentPairsOneBased(_, _)
ComponentPairsOneBased(clusters, i) ==
    IF i >= Len(clusters) THEN <<>>
    ELSE MemberPairs(clusters[i + 1], IntToStr(i + 1))
            \o ComponentPairsOneBased(clusters, i + 1)

RECURSIVE ComponentPairs(_, _)
ComponentPairs(clusters, i) ==
    IF i >= Len(clusters) THEN <<>>
    ELSE MemberPairs(clusters[i + 1], IntToStr(i))
            \o ComponentPairs(clusters, i + 1)

\* the pairs of the second comprehension: for cluster_id, members in
\* data.items() if isinstance(members, list) for seq in members
RECURSIVE OrthogroupPairsUntilScalar(_, _)
OrthogroupPairsUntilScalar(entries, e) ==
    IF e > Len(entries) \/ entries[e].t # "list" THEN <<>>
    ELSE MemberPairs(entries[e].v, entries[e].k)
            \o OrthogroupPairsUntilScalar(entries, e + 1)

RECURSIVE OrthogroupPairs(_, _)
OrthogroupPairs(entries, e) ==
    IF e > Len(entries) THEN <<>>
    ELSE (IF entries[e].t = "list"
          THEN MemberPairs(entries[e].v, entries[e].k)
          ELSE <<>>)
            \o OrthogroupPairs(entries, e + 1)

invert_clusters(data) ==
    IF IsComponentsFormat(data)
    THEN DictOf(ComponentPairs(Lookup(data, Components).v, 0))
    ELSE DictOf(OrthogroupPairs(data.v, 1))

-----------------------------------------------------------------------------
(* SpecInvert: invert_clusters applied to an input object.                 *)

\* raw identifiers: two that differ only by a species prefix, and a third
RawIds == { <<"A", ".", "w">>, <<"w">>, <<"v">> }

\* keys an input object may carry
ObjectKeys == { Components, <<"g">>, <<"h">> }

IdLists(t) == UNION {[1..m -> RawIds] : m \in 0..t}

\* lists of at most k clusters holding at most t identifiers together
RECURSIVE ClusterLists(_, _)
ClusterLists(k, t) ==
    IF k = 0 THEN {<<>>}
    ELSE {<<>>} \cup
         UNION { { <<cl>> \o rest : rest \in ClusterLists(k - 1, t - Len(cl)) }
                 : cl \in IdLists(t) }

RECURSIVE CountIds(_)
CountIds(clusters) ==
    IF clusters = <<>> THEN 0
    ELSE Len(clusters[1]) + CountIds(Tail(clusters))

\* the values a key may have with at most t identifiers (and at most n
\* clusters): a scalar, or a list
EntriesFor(key, n, t) ==
    {[k |-> key, t |-> "scalar", v |-> <<>>]} \cup
    IF key = Components
    THEN {[k |-> key, t |-> "list", v |-> cls] : cls \in ClusterLists(n, t)}
    ELSE {[k |-> key, t |-> "list", v |-> ids] : ids \in IdLists(t)}

EntrySize(entry) ==
    IF entry.k = Components THEN CountIds(entry.v) ELSE Len(entry.v)

\* entry sequences with distinct keys: at most m entries, at most n clusters
\* under 'components', at most t identifiers
RECURSIVE EntrySeqs(_, _, _, _)
EntrySeqs(keys, m, n, t) ==
    IF m = 0 THEN {<<>>}
    ELSE {<<>>} \cup
         UNION { { <<entry>> \o rest :
                     rest \in EntrySeqs(keys \ {entry.k}, m - 1, n, t - EntrySize(entry)) }
                 : entry \in UNION {EntriesFor(key, n, t) : key \in keys} }

\* objects of at most n entries, n clusters under 'components' and t
\* identifiers
Objects(n, t) ==
    {[t |-> "dict", v |-> es] : es \in EntrySeqs(ObjectKeys, n, n, t)}

InitInvert ==
    /\ pc = "invert1"
    /\ json1 \in Objects(MaxClusters, MaxIds)
    /\ seq_id = <<>> /\ norm1 = <<>> /\ norm2 = <<>>
    /\ file1 = None /\ file2 = None /\ json2 = None
    /\ inv1 = EmptyMap /\ inv2 = EmptyMap
    /\ c = FALSE
    /\ stdout = <<>> /\ stderr = <<>>
    /\ status = "running"

Note(kind, n) == [msg |-> kind, n |-> n]

\* main, lines 152-154: invert_clusters(json1) between two progress notes;
\* anything but a dict has no items() and the run ends in a traceback
InvertFile1 ==
    /\ pc = "invert1"
    /\ IF json1.t = "dict"
       THEN /\ inv1' = invert_clusters(json1)
            /\ stderr' = stderr \o <<Note("processing_1", 0),
                                     Note("found", Cardinality(DOMAIN inv1'))>>
            /\ pc' = "invert2"
            /\ status' = status
       ELSE /\ inv1' = inv1
            /\ stderr' = stderr \o <<Note("processing_1", 0), Note("traceback", 0)>>
            /\ pc' = "exited"
            /\ status' = "exit1"
    /\ UNCHANGED <<seq_id, norm1, norm2, file1, file2, json1, json2, inv2,
                   c, stdout>>

NextInvert == InvertFile1

SpecInvert == InitInvert /\ [][NextInvert]_vars

\* the entries of json1 that hold a list
ListEntries == {e \in 1..Len(json1.v) : json1.v[e].t = "list"}

\* the entry of json1 that holds the list under 'components', if any
ComponentsEntries == {e \in ListEntries : json1.v[e].k = Components}

\* the normalised identifiers in a list of raw identifiers
NormSet(members) == {strip_species_prefix(members[j]) : j \in 1..Len(members)}

\* C3: with a list under 'components', the keys of the mapping are the
\* normalised members of its clusters and nothing else; a member of the
\* cluster at position i (from 0) is labelled str(i) (when the identifier is
\* in several clusters, one of them gives the label, see C10); an empty
\* list gives the empty mapping.
C3_ComponentsLabels ==
    pc = "invert2" =>
        \A e \in ComponentsEntries :
            LET cls == json1.v[e].v
            IN  /\ DOMAIN inv1 = UNION {NormSet(cls[i]) : i \in 1..Len(cls)}
                /\ \A i \in 1..Len(cls) : \A k \in NormSet(cls[i]) :
                       (\A i2 \in (i + 1)..Len(cls) : k \notin NormSet(cls[i2]))
                           => inv1[k] = IntToStr(i - 1)
                /\ \A k \in DOMAIN inv1 : \E i \in 1..Len(cls) :
                       k \in NormSet(cls[i]) /\ inv1[k] = IntToStr(i - 1)
                /\ cls = <<>> => inv1 = EmptyMap

\* the second of two clusters under 'components' gave its member the label
\* "1" while another entry of the object held a list of its own, whose
\* member is no key of the mapping
C3_Witness ==
    /\ pc = "invert2"
    /\ \E e \in ComponentsEntries : Len(json1.v[e].v) = 2
    /\ \E e \in ListEntries \ ComponentsEntries :
          /\ json1.v[e].v # <<>>
          /\ NormSet(json1.v[e].v) \cap DOMAIN inv1 = {}
    /\ \E k \in DOMAIN inv1 : inv1[k] = <<"1">>

\* C4: without a list under 'components', the keys of the mapping are the
\* normalised members of the list-valued entries, each labelled with the
\* key of its entry (when the identifier is in several entries, one of them
\* gives the label, see C10); entries that hold no list add nothing, and
\* with no list-valued entry the mapping is empty and the run goes on.
C4_OrthogroupLabels ==
    (pc = "invert2" /\ ComponentsEntries = {}) =>
        /\ DOMAIN inv1 = UNION {NormSet(json1.v[e].v) : e \in ListEntries}
        /\ \A e \in ListEntries : \A k \in NormSet(json1.v[e].v) :
               (\A e2 \in ListEntries : e2 > e => k \notin NormSet(json1.v[e2].v))
                   => inv1[k] = json1.v[e].k
        /\ \A k \in DOMAIN inv1 : \E e \in ListEntries :
               k \in NormSet(json1.v[e].v) /\ inv1[k] = json1.v[e].k
        /\ ListEntries = {} => inv1 = EmptyMap
        /\ status = "running"

\* an object whose 'components' is no list, followed by a list-valued entry,
\* gave a mapping labelled with that entry's key
C4_Witness ==
    /\ pc = "invert2"
    /\ Len(json1.v) = 2
    /\ json1.v[1].k = Components /\ json1.v[1].t = "scalar"
    /\ json1.v[2].t = "list"
    /\ \E k \in DOMAIN inv1 : inv1[k] = json1.v[2].k

\* the clusters of json1 as the code walks them: label and raw members
WalkedClusters ==
    IF ComponentsEntries # {}
    THEN LET cls == json1.v[CHOOSE e \in ComponentsEntries : TRUE].v
         IN  [i \in 1..Len(cls) |-> [label |-> IntToStr(i - 1), members |-> cls[i]]]
    ELSE [e \in 1..Len(json1.v) |->
            [label |-> json1.v[e].k,
             members |-> IF json1.v[e].t = "list" THEN json1.v[e].v ELSE <<>>]]

\* the positions of the walked clusters that hold identifier k
Holders(k) ==
    {i \in 1..Len(WalkedClusters) : k \in NormSet(WalkedClusters[i].members)}

Max(S) == CHOOSE x \in S : \A y \in S : y <= x

\* C10: an identifier that is in two or more clusters after normalisation
\* has one entry in the mapping, labelled by the last cluster that holds it.
C10_LastClusterWins ==
    pc = "invert2" =>
        \A k \in DOMAIN inv1 :
            Cardinality(Holders(k)) >= 2
                => inv1[k] = WalkedClusters[Max(Holders(k))].label

\* "A.w" in one cluster and "w" in a later one ended as one key "w" with the
\* later label
C10_Witness ==
    /\ pc = "invert2"
    /\ \E i, i2 \in 1..Len(WalkedClusters) :
          /\ i < i2
          /\ \E j \in 1..Len(WalkedClusters[i].members) :
                WalkedClusters[i].members[j] = <<"A", ".", "w">>
          /\ \E j \in 1..Len(WalkedClusters[i2].members) :
                WalkedClusters[i2].members[j] = <<"w">>
          /\ Max(Holders(<<"w">>)) = i2
          /\ inv1[<<"w">>] = WalkedClusters[i2].label

-----------------------------------------------------------------------------
(* compare_clusterings: reconciliation and the two scores.                 *)
(*                                                                         *)
(* Numbers are exact.  A fraction is <<numerator, denominator>>.  A        *)
(* quantity built from logarithms of whole numbers is the function from    *)
(* primes to the coefficient of each log(p): the logarithms of the primes  *)
(* are linearly independent over the rationals, so two such quantities are *)
(* equal exactly when their coefficients are.                              *)

\* sorted(S) for a set of strings
RECURSIVE SortedDescending(_)
SortedDescending(S) ==
    IF S = {} THEN <<>>
    ELSE LET m == CHOOSE x \in S : \A y \in S : y = x \/ StrLess(y, x)
         IN  <<m>> \o SortedDescending(S \ {m})

RECURSIVE Sorted(_)
Sorted(S) ==
    IF S = {} THEN <<>>
    ELSE LET m == CHOOSE x \in S : \A y \in S : y = x \/ StrLess(x, y)
         IN  <<m>> \o Sorted(S \ {m})

\* [inv[s] for s in sorted_seqs]
LabelsOver(inv, sorted_seqs) ==
    [p \in 1..Len(sorted_seqs) |-> inv[sorted_seqs[p]]]

\* np.unique(labels): the distinct labels, sorted
Unique(labels) == Sorted({labels[p] : p \in 1..Len(labels)})

RECURSIVE SumTo(_, _)
SumTo(f, n) == IF n = 0 THEN 0 ELSE f[n] + SumTo(f, n - 1)

RECURSIVE MaxTo(_, _)
MaxTo(f, n) ==
    IF n = 1 THEN f[1]
    ELSE LET m == MaxTo(f, n - 1) IN IF f[n] > m THEN f[n] ELSE m

\* contingency_matrix(labels1, labels2): rows are the sorted distinct labels
\* of labels1, columns those of labels2
contingency_matrix(labels1, labels2) ==
    LET classes  == Unique(labels1)
        clusters == Unique(labels2)
    IN  [i \in 1..Len(classes) |->
           [j \in 1..Len(clusters) |->
              Cardinality({p \in 1..Len(labels1) :
                              labels1[p] = classes[i] /\ labels2[p] = clusters[j]})]]

RowSum(M, i) == SumTo(M[i], Len(M[i]))
ColSum(M, j) == SumTo([i \in 1..Len(M) |-> M[i][j]], Len(M))
NumCols(M)   == IF Len(M) = 0 THEN 0 ELSE Len(M[1])

\* the sum over all cells of a matrix
CellSum(G) ==
    SumTo([i \in 1..Len(G) |-> SumTo(G[i], Len(G[i]))], Len(G))

\* sklearn's pair_confusion_matrix as [tn, fp, fn, tp]
pair_confusion_matrix(labels1, labels2) ==
    LET M  == contingency_matrix(labels1, labels2)
        n  == Len(labels1)
        Cells(g(_, _)) == [i \in 1..Len(M) |-> [j \in 1..NumCols(M) |-> g(i, j)]]
        Sq(i, j)    == M[i][j] * M[i][j]
        ByCol(i, j) == M[i][j] * ColSum(M, j)
        ByRow(i, j) == M[i][j] * RowSum(M, i)
        sum_squares == CellSum(Cells(Sq))
        fp == CellSum(Cells(ByCol)) - sum_squares
        fn == CellSum(Cells(ByRow)) - sum_squares
    IN  [tp |-> sum_squares - n, fp |-> fp, fn |-> fn,
         tn |-> n * n - fp - fn - sum_squares]

\* sklearn's adjusted_rand_score, as a fraction
adjusted_rand_score(labels1, labels2) ==
    LET C == pair_confusion_matrix(labels1, labels2)
    IN  IF C.fn = 0 /\ C.fp = 0 THEN <<1, 1>>
        ELSE <<2 * (C.tp * C.tn - C.fn * C.fp),
               (C.tp + C.fn) * (C.fn + C.tn) + (C.tp + C.fp) * (C.fp + C.tn)>>

\* the primes that divide a count of at most n
PrimesTo(n) == {q \in 2..n : \A d \in 2..(q - 1) : q % d # 0}

RECURSIVE Exponent(_, _)
Exponent(q, m) == IF m % q # 0 THEN 0 ELSE 1 + Exponent(q, m \div q)

\* k * log(m) for m >= 1
KLog(P, k, m) == [q \in P |-> k * Exponent(q, m)]

VecAdd(P, u, v) == [q \in P |-> u[q] + v[q]]
VecZero(P)      == [q \in P |-> 0]

RECURSIVE VecSumTo(_, _, _)
VecSumTo(P, f, n) ==
    IF n = 0 THEN VecZero(P) ELSE VecAdd(P, f[n], VecSumTo(P, f, n - 1))

\* n * (sklearn's entropy of a labelling with the given cluster sizes):
\* the sum over clusters of size * (log n - log size)
ScaledEntropy(P, sizes, n) ==
    VecSumTo(P, [i \in 1..Len(sizes) |->
                    VecAdd(P, KLog(P, sizes[i], n), KLog(P, -sizes[i], sizes[i]))],
             Len(sizes))

\* n * (sklearn's mutual_info_score): the sum over the non-empty cells of
\* n_ij * (log n + log n_ij - log a_i - log b_j)
ScaledMutualInfo(P, M, n) ==
    LET Cell(i, j) ==
            IF M[i][j] = 0 THEN VecZero(P)
            ELSE VecAdd(P, VecAdd(P, KLog(P, M[i][j], n), KLog(P, M[i][j], M[i][j])),
                           VecAdd(P, KLog(P, -M[i][j], RowSum(M, i)),
                                     KLog(P, -M[i][j], ColSum(M, j))))
    IN  VecSumTo(P, [i \in 1..Len(M) |->
                        VecSumTo(P, [j \in 1..NumCols(M) |-> Cell(i, j)], NumCols(M))],
                 Len(M))

\* sklearn's normalized_mutual_info_score (arithmetic mean), as the pair
\* <<2 n MI, n H(labels1) + n H(labels2)>> whose quotient is the score
normalized_mutual_info_score(labels1, labels2) ==
    LET n  == Len(labels1)
        P  == PrimesTo(n) \cup {2}
        M  == contingency_matrix(labels1, labels2)
        one == KLog(P, 1, 2)
        mi == ScaledMutualInfo(P, M, n)
        h1 == ScaledEntropy(P, [i \in 1..Len(M) |-> RowSum(M, i)], n)
        h2 == ScaledEntropy(P, [j \in 1..NumCols(M) |-> ColSum(M, j)], n)
    IN  IF Len(M) = NumCols(M) /\ Len(M) <= 1 THEN <<one, one>>
        ELSE IF mi = VecZero(P) THEN <<VecZero(P), one>>
        ELSE <<VecAdd(P, mi, mi), VecAdd(P, h1, h2)>>

RECURSIVE Power(_, _)
Power(b, e) == IF e = 0 THEN 1 ELSE b * Power(b, e - 1)

RECURSIVE ProdTo(_, _)
ProdTo(f, n) == IF n = 0 THEN 1 ELSE f[n] * ProdTo(f, n - 1)

\* scipy's entropy(row) = sum of -p log p over p = row / row.sum(); with
\* t = row.sum() it is log(t^t / prod(c^c)) / t, kept as <<t^t, prod(c^c)>>
entropy(row) ==
    LET t == SumTo(row, Len(row))
    IN  <<Power(t, t), ProdTo([j \in 1..Len(row) |-> Power(row[j], row[j])], Len(row))>>

\* h > 0 for an entropy kept that way
EntropyPositive(h) == h[1] > h[2]

\* 1.0 - np.sum(pvec * pvec) with pvec = row / row.sum()
gini_helper_no_complement(row) ==
    LET rowsum == SumTo(row, Len(row))
    IN  <<SumTo([j \in 1..Len(row) |-> row[j] * row[j]], Len(row)), rowsum * rowsum>>

gini_helper(row) ==
    LET rowsum == SumTo(row, Len(row))
    IN  <<rowsum * rowsum - SumTo([j \in 1..Len(row) |-> row[j] * row[j]], Len(row)),
          rowsum * rowsum>>

\* the rows output_broken_clusters prints after its header, in order
RECURSIVE BrokenRowsAll(_, _, _)
BrokenRowsAll(M, true_labels, idx) ==
    IF idx > Len(true_labels) THEN <<>>
    ELSE LET row == M[idx]
             h   == entropy(row)
         IN  <<[line |-> "row", label |-> true_labels[idx], h |-> h,
                purity |-> <<MaxTo(row, Len(row)), SumTo(row, Len(row))>>,
                gini |-> gini_helper(row)]>>
             \o BrokenRowsAll(M, true_labels, idx + 1)

RECURSIVE BrokenRows(_, _, _)
BrokenRows(M, true_labels, idx) ==
    IF idx > Len(true_labels) THEN <<>>
    ELSE LET row == M[idx]
             h   == entropy(row)
         IN  (IF EntropyPositive(h)
              THEN <<[line |-> "row", label |-> true_labels[idx], h |-> h,
                      purity |-> <<MaxTo(row, Len(row)), SumTo(row, Len(row))>>,
                      gini |-> gini_helper(row)]>>
              ELSE <<>>)
             \o BrokenRows(M, true_labels, idx + 1)

\* what output_broken_clusters prints
output_broken_clusters(labels1, labels2) ==
    LET M == contingency_matrix(labels1, labels2)
        true_labels == Unique(labels1)
    IN  <<[line |-> "header"]>> \o BrokenRows(M, true_labels, 1)

\* the notes on sequences found in one file only
ExclusiveNotesFirstOnly(only_in_1, only_in_2) ==
    IF only_in_1 # {} THEN <<Note("only_in_1", Cardinality(only_in_1))>> ELSE <<>>

ExclusiveNotes(only_in_1, only_in_2) ==
    (IF only_in_1 # {} THEN <<Note("only_in_1", Cardinality(only_in_1))>> ELSE <<>>)
    \o (IF only_in_2 # {} THEN <<Note("only_in_2", Cardinality(only_in_2))>> ELSE <<>>)

\* what compare_clusterings prints to standard output when there are
\* sequences in common
ScoreLinesUnaligned(common, m1, m2, compare_clusters) ==
    LET labels1 == LabelsOver(m1, Sorted(common))
        labels2 == LabelsOver(m2, SortedDescending(common))
    IN  <<[line |-> "ars", val |-> adjusted_rand_score(labels1, labels2)],
          [line |-> "nmi", val |-> normalized_mutual_info_score(labels1, labels2)]>>
        \o (IF compare_clusters THEN output_broken_clusters(labels1, labels2) ELSE <<>>)

ScoreLines(common, m1, m2, compare_clusters) ==
    LET sorted_seqs == Sorted(common)
        labels1 == LabelsOver(m1, sorted_seqs)
        labels2 == LabelsOver(m2, sorted_seqs)
    IN  <<[line |-> "ars", val |-> adjusted_rand_score(labels1, labels2)],
          [line |-> "nmi", val |-> normalized_mutual_info_score(labels1, labels2)]>>
        \o (IF compare_clusters THEN output_broken_clusters(labels1, labels2) ELSE <<>>)

\* keys1 & keys2
CommonKeys(m1, m2) == DOMAIN m1 \cap DOMAIN m2

\* compare_clusterings(inv1, inv2, args.c), the last call of main
Compare ==
    /\ pc = "compare"
    /\ LET common    == CommonKeys(inv1, inv2)
           only_in_1 == DOMAIN inv1 \ DOMAIN inv2
           only_in_2 == DOMAIN inv2 \ DOMAIN inv1
           notes     == ExclusiveNotes(only_in_1, only_in_2)
       IN  IF common = {}
           THEN /\ stderr' = stderr \o notes \o <<Note("no_common", 0)>>
                /\ stdout' = stdout
                /\ status' = "exit1"
                /\ pc' = "exited"
           ELSE /\ stderr' = stderr \o notes \o <<Note("common", Cardinality(common))>>
                /\ stdout' = stdout \o ScoreLines(common, inv1, inv2, c)
                /\ status' = "exit0"
                /\ pc' = "done"
    /\ UNCHANGED <<seq_id, norm1, norm2, file1, file2, json1, json2, inv1, inv2, c>>

-----------------------------------------------------------------------------
(* SpecCompare: compare_clusterings applied to two mappings.  SpecSelf:    *)
(* applied to a mapping and itself.                                        *)

\* normalised identifiers "w1", "w2", ...
CompareIds(n) == {<<"w">> \o IntToStr(i) : i \in 1..n}

\* cluster labels of the first and of the second mapping
Labels1 == { <<"1", "0">>, <<"2">> }
Labels2 == { <<"g">>, <<"h">> }
SelfLabels == { <<"0">>, <<"1">>, <<"1", "0">>, <<"2">> }

Mappings(ids, labels) == UNION {[D -> labels] : D \in SUBSET ids}

InitCompare ==
    /\ pc = "compare"
    /\ inv1 \in Mappings(CompareIds(MaxSeqs), Labels1)
    /\ inv2 \in Mappings(CompareIds(MaxSeqs), Labels2)
    /\ c \in BOOLEAN
    /\ seq_id = <<>> /\ norm1 = <<>> /\ norm2 = <<>>
    /\ file1 = None /\ file2 = None /\ json1 = None /\ json2 = None
    /\ stdout = <<>> /\ stderr = <<>>
    /\ status = "running"

NextCompare == Compare

SpecCompare == InitCompare /\ [][NextCompare]_vars

InitSelf ==
    /\ pc = "compare"
    /\ inv1 \in Mappings(CompareIds(MaxSeqs), SelfLabels)
    /\ inv2 = inv1
    /\ c \in BOOLEAN
    /\ seq_id = <<>> /\ norm1 = <<>> /\ norm2 = <<>>
    /\ file1 = None /\ file2 = None /\ json1 = None /\ json2 = None
    /\ stdout = <<>> /\ stderr = <<>>
    /\ status = "running"

NextSelf == Compare

SpecSelf == InitSelf /\ [][NextSelf]_vars

-----------------------------------------------------------------------------
(* Spec: main, from the two opened files to the end of the run.            *)

\* json.load(handle) raises on text that is no JSON; what it returns
\* otherwise is the content.  An array is kept by its length only.
Garbage == [t |-> "garbage"]
Array(n) == [t |-> "array", n |-> n]

\* what a file may hold: no JSON, an array, or an object of one entry
FileContents(t) ==
    {Garbage, Array(0), Array(1)}
        \cup {[t |-> "dict", v |-> es] : es \in EntrySeqs(ObjectKeys, 1, t, t)}

\* not jsondata
Falsy(jsondata) ==
    \/ jsondata.t = "dict" /\ jsondata.v = <<>>
    \/ jsondata.t = "array" /\ jsondata.n = 0

\* load_json without the test for empty data
load_json_no_empty_test(handle) ==
    IF handle.content.t = "garbage"
    THEN [exit |-> TRUE, msg |-> [msg |-> "could_not_load", file |-> handle.name]]
    ELSE [exit |-> FALSE, data |-> handle.content]

\* load_json: json.load raising lands in the bare except; so does empty
\* data, because exit(..., file=sys.stderr) raises TypeError inside the try.
\* The except clause exits with 'Could not load JSON data from <name>'.
load_json(handle) ==
    IF handle.content.t = "garbage" \/ Falsy(handle.content)
    THEN [exit |-> TRUE, msg |-> [msg |-> "could_not_load", file |-> handle.name]]
    ELSE [exit |-> FALSE, data |-> handle.content]

Init ==
    /\ pc = "load1"
    /\ file1 \in {[name |-> "jsonfile1", content |-> x] : x \in FileContents(MaxFileIds)}
    /\ file2 \in {[name |-> "jsonfile2", content |-> x] : x \in FileContents(MaxFileIds)}
    /\ c \in BOOLEAN
    /\ json1 = None /\ json2 = None
    /\ inv1 = EmptyMap /\ inv2 = EmptyMap
    /\ seq_id = <<>> /\ norm1 = <<>> /\ norm2 = <<>>
    /\ stdout = <<>> /\ stderr = <<>>
    /\ status = "running"

\* main, line 149: json1 = load_json(args.jsonfile1)
LoadFile1 ==
    /\ pc = "load1"
    /\ LET r == load_json(file1)
       IN  IF r.exit
           THEN /\ stderr' = stderr \o <<r.msg>>
                /\ status' = "exit1"
                /\ pc' = "exited"
                /\ json1' = json1
           ELSE /\ json1' = r.data
                /\ pc' = "load2"
                /\ UNCHANGED <<stderr, status>>
    /\ UNCHANGED <<seq_id, norm1, norm2, file1, file2, json2, inv1, inv2, c, stdout>>

\* main, line 150: json2 = load_json(args.jsonfile2)
LoadFile2 ==
    /\ pc = "load2"
    /\ LET r == load_json(file2)
       IN  IF r.exit
           THEN /\ stderr' = stderr \o <<r.msg>>
                /\ status' = "exit1"
                /\ pc' = "exited"
                /\ json2' = json2
           ELSE /\ json2' = r.data
                /\ pc' = "invert1"
                /\ UNCHANGED <<stderr, status>>
    /\ UNCHANGED <<seq_id, norm1, norm2, file1, file2, json1, inv1, inv2, c, stdout>>

\* main, lines 156-160: invert_clusters(json2) between its progress notes,
\* then the notice that the comparison starts
InvertFile2 ==
    /\ pc = "invert2"
    /\ IF json2.t = "dict"
       THEN /\ inv2' = invert_clusters(json2)
            /\ stderr' = stderr \o <<Note("processing_2", 0),
                                     Note("found", Cardinality(DOMAIN inv2')),
                                     Note("comparing", 0)>>
            /\ pc' = "compare"
            /\ status' = status
       ELSE /\ inv2' = inv2
            /\ stderr' = stderr \o <<Note("processing_2", 0), Note("traceback", 0)>>
            /\ pc' = "exited"
            /\ status' = "exit1"
    /\ UNCHANGED <<seq_id, norm1, norm2, file1, file2, json1, json2, inv1,
                   c, stdout>>

Next == LoadFile1 \/ LoadFile2 \/ InvertFile1 \/ InvertFile2 \/ Compare

Spec == Init /\ [][Next]_vars

-----------------------------------------------------------------------------
(* Properties of compare_clusterings and of main.                          *)

\* the lines of a given kind printed to standard output
Printed(kind) == SelectSeq(stdout, LAMBDA l : l.line = kind)

\* C5: with no key in common the run ends with an error, nothing is printed
\* to standard output (no score, no table), and standard error holds the
\* count of each non-empty exclusive set, file 1 first, before the error.
C5_DisjointFails ==
    (pc # "compare" /\ DOMAIN inv1 \cap DOMAIN inv2 = {}) =>
        LET n1 == Cardinality(DOMAIN inv1)
            n2 == Cardinality(DOMAIN inv2)
        IN  /\ pc = "exited" /\ status = "exit1"
            /\ stdout = <<>>
            /\ stderr = (IF n1 > 0 THEN <<Note("only_in_1", n1)>> ELSE <<>>)
                        \o (IF n2 > 0 THEN <<Note("only_in_2", n2)>> ELSE <<>>)
                        \o <<Note("no_common", 0)>>

\* two non-empty mappings without a common key were compared
C5_Witness ==
    /\ pc = "exited"
    /\ DOMAIN inv1 # {} /\ DOMAIN inv2 # {}
    /\ DOMAIN inv1 \cap DOMAIN inv2 = {}
    /\ Len(stderr) = 3

\* a file json.load cannot parse, or whose parsed data is empty
Offending(handle) ==
    \/ handle.content = Garbage
    \/ handle.content = [t |-> "dict", v |-> <<>>]
    \/ handle.content = Array(0)

C7_SelfComparisonScoresOne ==
    (pc # "compare" /\ inv1 = inv2 /\ DOMAIN inv1 # {}) =>
        /\ pc = "done"
        /\ Len(Printed("ars")) = 1 /\ Len(Printed("nmi")) = 1
        /\ Printed("ars")[1].val[1] = Printed("ars")[1].val[2]
        /\ Printed("nmi")[1].val[1] = Printed("nmi")[1].val[2]

\* a mapping with a cluster of two and a cluster of one was compared with
\* itself
C7_Witness ==
    /\ pc = "done"
    /\ inv1 = inv2
    /\ \E s1, s2, s3 \in DOMAIN inv1 :
          s1 # s2 /\ inv1[s1] = inv1[s2] /\ inv1[s3] # inv1[s1]

\* the sequences in both mappings that the first mapping puts in cluster l
CommonMembers(l) == {s \in DOMAIN inv1 \cap DOMAIN inv2 : inv1[s] = l}

\* the labels the second mapping gives to those sequences
Counterparts(l) == {inv2[s] : s \in CommonMembers(l)}

\* the labels of the first mapping whose common members are spread over
\* two or more clusters of the second
BrokenLabels ==
    {l \in {inv1[s] : s \in DOMAIN inv1} : Cardinality(Counterparts(l)) >= 2}

\* C8: in broken-cluster mode the rows printed are those of the labels of
\* mapping 1 whose common members carry two or more labels of mapping 2,
\* each once, in ascending order of the label string ("10" before "2").
C8_BrokenRows ==
    (pc = "done" /\ c) =>
        LET rows == Printed("row")
        IN  /\ {rows[i].label : i \in 1..Len(rows)} = BrokenLabels
            /\ Len(rows) = Cardinality(BrokenLabels)
            /\ \A i, j \in 1..Len(rows) :
                   i < j => StrLess(rows[i].label, rows[j].label)
            /\ \A i, j \in 1..Len(rows) :
                   (rows[i].label = <<"1", "0">> /\ rows[j].label = <<"2">>) => i < j
            /\ Len(Printed("header")) = 1

\* clusters "10" and "2" were both broken and a third sequence sat in a
\* cluster that was not
C8_Witness ==
    /\ pc = "done" /\ c
    /\ Len(Printed("row")) = 2
    /\ Printed("row")[1].label = <<"1", "0">>
    /\ Printed("row")[2].label = <<"2">>

RECURSIVE SetSum(_, _)
SetSum(S, f) ==
    IF S = {} THEN 0
    ELSE LET x == CHOOSE y \in S : TRUE IN f[x] + SetSum(S \ {x}, f)

\* the common members of cluster l that the second mapping labels l2
CountIn(l, l2) == Cardinality({s \in CommonMembers(l) : inv2[s] = l2})

\* C9: a printed row's purity is the largest count of the cluster's common
\* members in one cluster of mapping 2 over the number of its common
\* members, and its Gini is 1 minus the sum of the squared fractions; a
\* cluster of three split two and one has purity 2/3 and Gini 4/9.
C9_PurityAndGini ==
    (pc = "done" /\ c) =>
        \A i \in 1..Len(Printed("row")) :
            LET row    == Printed("row")[i]
                l      == row.label
                total  == Cardinality(CommonMembers(l))
                sq     == [l2 \in Counterparts(l) |-> CountIn(l, l2) * CountIn(l, l2)]
                sumsq  == SetSum(Counterparts(l), sq)
                best   == Max({CountIn(l, l2) : l2 \in Counterparts(l)})
            IN  /\ row.purity[2] > 0 /\ row.gini[2] > 0
                /\ row.purity[1] * total = best * row.purity[2]
                /\ row.gini[1] * (total * total)
                      = (total * total - sumsq) * row.gini[2]
                /\ (total = 3 /\ best = 2) =>
                      /\ 3 * row.purity[1] = 2 * row.purity[2]
                      /\ 9 * row.gini[1] = 4 * row.gini[2]

\* a cluster with three common members, split two and one, was reported
\* while a fourth sequence with the same label was in the first file only
C9_Witness ==
    /\ pc = "done" /\ c
    /\ \E i \in 1..Len(Printed("row")) :
          LET l == Printed("row")[i].label
          IN  /\ Cardinality(CommonMembers(l)) = 3
              /\ 3 * Printed("row")[i].purity[1] = 2 * Printed("row")[i].purity[2]
              /\ 9 * Printed("row")[i].gini[1] = 4 * Printed("row")[i].gini[2]
              /\ \E s \in DOMAIN inv1 \ DOMAIN inv2 : inv1[s] = l

=============================================================================
